---- MODULE Spec2Model ----
(***************************************************************************)
(* A model of the render manager (src/src/include/render.cpp) and of the   *)
(* shot model (src/src/models/shot_model.cpp) of the OpenGL game demo.     *)
(*                                                                         *)
(* Identifiers are std::string in the program; here they are naturals and  *)
(* the order of the naturals stands for the lexicographic order of the     *)
(* strings (std::map iterates in key order).  0 stands for the empty       *)
(* string, the value of a default-constructed activeCameraId.              *)
(* Handles (textures, framebuffers, shader programs) are opaque numbers.   *)
(* Time is counted in milliseconds and positions in tenths of a world      *)
(* unit, so that the shot's velocity of 100 units per second is one tenth  *)
(* per millisecond and every value of the model is an integer.             *)
(***************************************************************************)
EXTENDS Integers, Sequences, FiniteSets, TLC

(***************************************************************************)
(* Bounds of the model.                                                    *)
(***************************************************************************)
MaxLightId == 2
MaxModelId == 2
MaxCameraId == 2
\* The most simple and cube lights a scene of SpecSlots registers.
MaxSimpleLights == 8
MaxCubeLights == 9
\* The shots and enemies of a scene of SpecShot, and how often its clock
\* is advanced.
MaxShots == 2
MaxEnemies == 2
MaxTicks == 3
\* The frames of a scene of SpecShotLive.
MaxFrames == 4
\* std::numeric_limits<GLuint>::max() of createAttributeId, scaled down, and
\* the VertexAttributeArray objects that SpecAttributes constructs.
MaxAttributeId == 4
MaxArrays == 5

(***************************************************************************)
(* Program constants.                                                      *)
(***************************************************************************)
WINDOW_WIDTH == 800
WINDOW_HEIGHT == 600
MAX_CONE_LIGHTS == 4
MAX_POINT_LIGHTS == 6
VIEWPORT_WIDTH == WINDOW_WIDTH
VIEWPORT_HEIGHT == WINDOW_HEIGHT
FRAMEBUFFER_WIDTH == VIEWPORT_WIDTH * 2
FRAMEBUFFER_HEIGHT == VIEWPORT_HEIGHT * 2
\* The literal slot bounds of the two placeholder loops of renderModels.
SimpleSlotBound == 7
CubeSlotBound == 8
\* GL_TEXTURE0 + (i + 1) and GL_TEXTURE0 + (i + 8), as offsets from GL_TEXTURE0.
SimpleUnitBase == 1
CubeUnitBase == 8
\* ShotModel: the boundary z < -50.0 in tenths of a unit, the 0.5 seconds of
\* the toggle in milliseconds, the first lastShotLightChange (-1 second).
ExpiryBoundary == -500
ToggleInterval == 500
LastShotLightChangeInit == -1000

VARIABLES
  \* RenderManager
  activeCameraId, deadSimpleLight, deadCubeLight,
  registeredLights, registeredModels, registeredCameras,
  startTime, lastTime,
  \* VertexAttributeArray::attributeIds
  attributeIds,
  \* the attributeId of each VertexAttributeArray object that lives outside
  \* render()
  arrays,
  \* the graphics calls issued by the last operation, in order
  glCalls,
  \* the framebuffer bound to GL_FRAMEBUFFER (0 is the window's)
  boundFramebuffer,
  \* the process was ended by the last operation
  crashed,
  \* the name and inputs of the last operation
  lastOp,
  \* glfwGetTime(), in milliseconds
  now,
  \* the number of times the clock was advanced
  ticks,
  \* ShotModel::isShotLightPresent and ShotModel::lastShotLightChange
  isShotLightPresent, lastShotLightChange,
  \* the ShotModel objects, by shot
  shots,
  \* the registries of ModelManager and LightManager
  managedModels, managedLights,
  \* when, and by which shot's update(), the flag last changed its value
  lastFlip,
  \* the shots of this frame's update pass that have not been updated yet
  pending

renderVars == <<activeCameraId, deadSimpleLight, deadCubeLight,
                registeredLights, registeredModels, registeredCameras,
                startTime, lastTime, attributeIds, arrays, glCalls,
                boundFramebuffer, crashed>>
shotVars == <<ticks, isShotLightPresent, lastShotLightChange, shots,
              managedModels, managedLights, lastFlip, pending>>
vars == <<renderVars, lastOp, now, shotVars>>

(***************************************************************************)
(* Entities.  A light, a model or a camera is a shared pointer to an       *)
(* object; two different objects may carry the same identifier.            *)
(***************************************************************************)
ShadowBufferType == {"SIMPLE", "CUBE"}
LightIds == 1..MaxLightId
ModelIds == 1..MaxModelId
CameraIds == 1..MaxCameraId

Lights == [id : LightIds, type : ShadowBufferType]
NullLight == [id |-> 0, type |-> "NULL"]
\* The two placeholder lights that main() hands to registerDead*Light.
DeadSimple == [id |-> 0, type |-> "SIMPLE"]
DeadCube == [id |-> 0, type |-> "CUBE"]

ModelShaders == {3, 4}
Models == [id : ModelIds, shader : ModelShaders]

Cameras == [id : CameraIds, obj : {1, 2}]
NullCamera == [id |-> 0, obj |-> 0]

\* LightBase accessors.
getLightId(l) == l.id
getShadowBufferType(l) == l.type
getShadowBufferTextureId(l) == 10 * l.id + (IF l.type = "CUBE" THEN 2 ELSE 1)
getShadowBufferId(l) == 100 + 10 * l.id + (IF l.type = "CUBE" THEN 2 ELSE 1)
getLightShaderId(l) == IF l.type = "CUBE" THEN 2 ELSE 1
\* getViewMatrices().size(): one view for a SIMPLE light, six for a CUBE light.
viewMatricesSize(l) == IF l.type = "CUBE" THEN 6 ELSE 1
\* ModelBase accessors.
getModelId(m) == m.id
getModelShaderId(m) == m.shader
getTextureId(m) == 1000 + m.id
\* CameraBase accessor.
getCameraId(c) == c.id

\* What a read through a null pointer yields when the process survives it.
GarbageTexture == 0
UBOutcomes == {"crash", "garbage"}

(***************************************************************************)
(* std::map: a function whose domain is the set of keys present.           *)
(***************************************************************************)
EmptyMap == <<>>

\* std::map::insert(pair): inserts only when the key is absent.
mapInsert(m, k, v) == IF k \in DOMAIN m THEN m ELSE [x \in DOMAIN m \cup {k} |-> IF x = k THEN v ELSE m[x]]

\* std::map::erase(key).
mapErase(m, k) == [x \in DOMAIN m \ {k} |-> m[x]]

\* std::map::operator[]: default-constructs the value of an absent key.
mapIndex(m, k, dflt) == IF k \in DOMAIN m THEN m ELSE [x \in DOMAIN m \cup {k} |-> IF x = k THEN dflt ELSE m[x]]

RECURSIVE SortedKeys(_)
\* The keys of a std::map in iteration order (begin() to end()).
SortedKeys(S) ==
  IF S = {} THEN <<>>
  ELSE LET k == CHOOSE x \in S : \A y \in S : x <= y
       IN <<k>> \o SortedKeys(S \ {k})

\* An iteration from the last key to the first.
mapValuesDescending(m) ==
  LET ks == SortedKeys(DOMAIN m) IN [i \in 1..Len(ks) |-> m[ks[Len(ks) + 1 - i]]]

mapValues(m) == LET ks == SortedKeys(DOMAIN m) IN [i \in 1..Len(ks) |-> m[ks[i]]]

Range(s) == {s[i] : i \in 1..Len(s)}

(***************************************************************************)
(* VertexAttributeArray.                                                   *)
(***************************************************************************)
\* What createAttributeId yields when it does not return: it prints
\* "Failed at render" and calls exit(1).
NoAttributeId == -1

\* createAttributeId that counts the identifiers in use instead of searching.
createAttributeIdByCount(ids) ==
  IF Cardinality(ids) < MaxAttributeId THEN Cardinality(ids) ELSE NoAttributeId

\* createAttributeId: the first i of 0 .. maxId - 1, counting up, that is not
\* in attributeIds; the exit when there is none.
createAttributeId(ids) ==
  IF \A i \in 0..(MaxAttributeId - 1) : i \in ids THEN NoAttributeId
  ELSE CHOOSE i \in 0..(MaxAttributeId - 1) :
         i \notin ids /\ \A j \in 0..(i - 1) : j \in ids

RECURSIVE constructAttributes(_, _)
\* n VertexAttributeArray objects constructed one after the other: the ids
\* they get, each inserted into attributeIds before the next is created.
\* (render() holds three at most at a time, fewer than there are identifiers.)
constructAttributes(ids, n) ==
  IF n = 0 THEN <<>>
  ELSE LET a == createAttributeId(ids)
       IN <<a>> \o constructAttributes(ids \cup {a}, n - 1)

\* A destructor that leaves its identifier in attributeIds.
destructAttributesKeepsIds(ids, acquired) == ids

\* ~VertexAttributeArray at the end of the loop body, for each array.
destructAttributes(ids, acquired) == ids \ Range(acquired)

(***************************************************************************)
(* RenderManager::renderLights.                                            *)
(***************************************************************************)
\* The LightDetails initialiser: `light` stands for the values read through
\* the light's getters (position, matrices, colour, intensity, planes).
lightDetailsOf(l) ==
  [light |-> l,
   mapWidth |-> FRAMEBUFFER_WIDTH,
   mapHeight |-> FRAMEBUFFER_WIDTH,
   textureId |-> getShadowBufferTextureId(l)]

\* A model loop of the shadow pass that draws the first model only.
shadowDrawFirstModelOnly(l, m, ids) ==
  [calls |-> IF getModelId(m) > 1 THEN <<>>
             ELSE <<[op |-> "glDrawArrays", pass |-> "shadow",
                     light |-> getLightId(l), model |-> getModelId(m),
                     vpMatrixCount |-> viewMatricesSize(l),
                     vpMatrices |-> viewMatricesSize(l),
                     attributes |-> constructAttributes(ids, 1)]>>,
   ids |-> ids]

\* One iteration of the model loop of the shadow pass.
shadowDraw(l, m, ids) ==
  LET acquired == constructAttributes(ids, 1)
  IN [calls |-> <<[op |-> "glDrawArrays", pass |-> "shadow",
                   light |-> getLightId(l), model |-> getModelId(m),
                   vpMatrixCount |-> viewMatricesSize(l),
                   vpMatrices |-> viewMatricesSize(l),
                   attributes |-> acquired]>>,
      ids |-> destructAttributes(ids \cup Range(acquired), acquired)]

RECURSIVE shadowModels(_, _, _, _)
shadowModels(l, ms, i, ids) ==
  IF i > Len(ms) THEN [calls |-> <<>>, ids |-> ids]
  ELSE LET d == shadowDraw(l, ms[i], ids)
           r == shadowModels(l, ms, i + 1, d.ids)
       IN [calls |-> d.calls \o r.calls, ids |-> r.ids]

\* A cache that selects a program in the first iteration only.
useProgramFirstOnly(pass, shaderId, wanted) ==
  IF shaderId = -1
  THEN <<[op |-> "glUseProgram", pass |-> pass, program |-> wanted]>>
  ELSE <<>>

\* if (shaderId != wanted) { shaderId = wanted; glUseProgram(shaderId); }
useProgramCached(pass, shaderId, wanted) ==
  IF shaderId # wanted
  THEN <<[op |-> "glUseProgram", pass |-> pass, program |-> wanted]>>
  ELSE <<>>

EmptyCategorized == [SIMPLE |-> <<>>, CUBE |-> <<>>]

RECURSIVE lightLoop(_, _, _, _, _)
lightLoop(ls, ms, i, shaderId, ids) ==
  IF i > Len(ls) THEN [calls |-> <<>>, categorizedLights |-> EmptyCategorized, ids |-> ids]
  ELSE LET l == ls[i]
           t == getShadowBufferType(l)
           d == shadowModels(l, ms, 1, ids)
           r == lightLoop(ls, ms, i + 1, getLightShaderId(l), d.ids)
       IN [calls |-> <<[op |-> "glBindFramebuffer", pass |-> "shadow",
                        framebuffer |-> getShadowBufferId(l)],
                       [op |-> "clearScreen", pass |-> "shadow"]>>
                     \o useProgramCached("shadow", shaderId, getLightShaderId(l))
                     \o d.calls
                     \o <<[op |-> "glBindFramebuffer", pass |-> "shadow",
                           framebuffer |-> 0]>>
                     \o r.calls,
           categorizedLights |->
             [r.categorizedLights EXCEPT ![t] = <<lightDetailsOf(l)>> \o @],
           ids |-> r.ids]

\* The calls without those that bind the window's framebuffer.
IsNotRestore(c) == ~(c.op = "glBindFramebuffer" /\ c.framebuffer = 0)

\* renderLights that leaves the light's framebuffer bound after each light.
renderLightsNoRestore(lights, models, ids) ==
  LET r == lightLoop(mapValues(lights), mapValues(models), 1, -1, ids)
  IN [calls |-> <<[op |-> "switchToFrameBufferViewport", pass |-> "shadow"]>>
                  \o SelectSeq(r.calls, IsNotRestore),
      categorizedLights |-> r.categorizedLights,
      ids |-> r.ids]

renderLights(lights, models, ids) ==
  LET r == lightLoop(mapValues(lights), mapValues(models), 1, -1, ids)
  IN [calls |-> <<[op |-> "switchToFrameBufferViewport", pass |-> "shadow"]>>
                  \o r.calls,
      categorizedLights |-> r.categorizedLights,
      ids |-> r.ids]

(***************************************************************************)
(* RenderManager::renderModels.                                            *)
(***************************************************************************)
\* The end of the process at a read through a null pointer.
Segv == [op |-> "SEGV", pass |-> "main"]

\* Lines 325-370: one registered simple light's details (of which the map
\* size, lines 347-355) and its shadow texture (lines 367-370).
simpleLightSlot(m, cat, i) ==
  [op |-> "bindShadowTexture", pass |-> "main", model |-> getModelId(m),
   kind |-> "SIMPLE", slot |-> i, placeholder |-> FALSE,
   mapWidth |-> cat.SIMPLE[i + 1].mapWidth,
   mapHeight |-> cat.SIMPLE[i + 1].mapHeight,
   unit |-> i + SimpleUnitBase, target |-> "GL_TEXTURE_2D",
   texture |-> cat.SIMPLE[i + 1].textureId,
   sampler |-> i + SimpleUnitBase]

\* Lines 374-377: the placeholder's texture for an unused simple slot.
simplePlaceholderSlot(m, cat, deadS, i, ub) ==
  IF deadS = NullLight /\ ub = "crash" THEN Segv
  ELSE [op |-> "bindShadowTexture", pass |-> "main", model |-> getModelId(m),
        kind |-> "SIMPLE", slot |-> i, placeholder |-> TRUE,
        unit |-> i + SimpleUnitBase, target |-> "GL_TEXTURE_2D",
        texture |-> IF deadS = NullLight THEN GarbageTexture
                    ELSE getShadowBufferTextureId(deadS),
        sampler |-> i + SimpleUnitBase]

\* Lines 382-427: one registered cube light's details (of which the map
\* size, lines 404-412) and its shadow texture (lines 424-427).
cubeLightSlot(m, cat, i) ==
  [op |-> "bindShadowTexture", pass |-> "main", model |-> getModelId(m),
   kind |-> "CUBE", slot |-> i, placeholder |-> FALSE,
   mapWidth |-> cat.CUBE[i + 1].mapWidth,
   mapHeight |-> cat.CUBE[i + 1].mapHeight,
   unit |-> i + CubeUnitBase, target |-> "GL_TEXTURE_CUBE_MAP",
   texture |-> cat.CUBE[i + 1].textureId,
   sampler |-> Len(cat.SIMPLE) + i + CubeUnitBase]

\* Lines 431-434: the placeholder's texture for an unused cube slot.
cubePlaceholderSlot(m, cat, deadC, i, ub) ==
  IF deadC = NullLight /\ ub = "crash" THEN Segv
  ELSE [op |-> "bindShadowTexture", pass |-> "main", model |-> getModelId(m),
        kind |-> "CUBE", slot |-> i, placeholder |-> TRUE,
        unit |-> i + CubeUnitBase, target |-> "GL_TEXTURE_CUBE_MAP",
        texture |-> IF deadC = NullLight THEN GarbageTexture
                    ELSE getShadowBufferTextureId(deadC),
        sampler |-> Len(cat.SIMPLE) + i + CubeUnitBase]

\* for (i = 0; i < size; i++) followed by for (i = size; i < 7; i++).
simpleSlots(m, cat, deadS, ub) ==
  [k \in 1..Len(cat.SIMPLE) |-> simpleLightSlot(m, cat, k - 1)]
  \o [k \in 1..(SimpleSlotBound - Len(cat.SIMPLE)) |->
        simplePlaceholderSlot(m, cat, deadS, Len(cat.SIMPLE) + k - 1, ub)]

\* for (i = 0; i < size; i++) followed by for (i = size; i < 8; i++).
cubeSlots(m, cat, deadC, ub) ==
  [k \in 1..Len(cat.CUBE) |-> cubeLightSlot(m, cat, k - 1)]
  \o [k \in 1..(CubeSlotBound - Len(cat.CUBE)) |->
        cubePlaceholderSlot(m, cat, deadC, Len(cat.CUBE) + k - 1, ub)]

\* One iteration of the model loop of the main pass, after the shader switch.
mainDraw(m, cat, deadS, deadC, times, ids, ub) ==
  LET acquired == constructAttributes(ids, 3)
  IN [calls |-> <<[op |-> "glUniforms", pass |-> "main", model |-> getModelId(m),
                   totalTime |-> times.totalTime, deltaTime |-> times.deltaTime,
                   simpleLightsCount |-> Len(cat.SIMPLE),
                   cubeLightsCount |-> Len(cat.CUBE)],
                  [op |-> "bindDiffuseTexture", pass |-> "main",
                   model |-> getModelId(m), unit |-> 0,
                   target |-> "GL_TEXTURE_2D", texture |-> getTextureId(m),
                   sampler |-> 0]>>
                \o simpleSlots(m, cat, deadS, ub)
                \o cubeSlots(m, cat, deadC, ub)
                \o <<[op |-> "glDrawArrays", pass |-> "main", light |-> 0,
                      model |-> getModelId(m), attributes |-> acquired]>>,
      ids |-> destructAttributes(ids \cup Range(acquired), acquired)]

RECURSIVE modelLoop(_, _, _, _, _, _, _, _, _)
modelLoop(ms, i, shaderId, cat, deadS, deadC, times, ids, ub) ==
  IF i > Len(ms) THEN [calls |-> <<>>, ids |-> ids]
  ELSE LET m == ms[i]
           d == mainDraw(m, cat, deadS, deadC, times, ids, ub)
           r == modelLoop(ms, i + 1, getModelShaderId(m), cat, deadS, deadC,
                          times, d.ids, ub)
       IN [calls |-> useProgramCached("main", shaderId, getModelShaderId(m))
                     \o d.calls \o r.calls,
           ids |-> r.ids]

\* The calls issued up to the first read through a null pointer that ends
\* the process.
untilSegv(calls) ==
  IF \E i \in 1..Len(calls) : calls[i].op = "SEGV"
  THEN SubSeq(calls, 1, (CHOOSE i \in 1..Len(calls) :
                           /\ calls[i].op = "SEGV"
                           /\ \A j \in 1..(i - 1) : calls[j].op # "SEGV") - 1)
  ELSE calls

hasSegv(calls) == \E i \in 1..Len(calls) : calls[i].op = "SEGV"

\* rm is the RenderManager: [activeCameraId, deadSimpleLight, deadCubeLight,
\* registeredLights, registeredModels, registeredCameras, startTime, lastTime].
renderModels(rm, categorizedLights, ids, currentTime, ub) ==
  LET times == [deltaTime |-> currentTime - rm.lastTime,
                totalTime |-> currentTime - rm.startTime]
      \* auto activeCamera = registeredCameras[activeCameraId];
      cameras == mapIndex(rm.registeredCameras, rm.activeCameraId, NullCamera)
      activeCamera == cameras[rm.activeCameraId]
      \* activeCamera->getViewMatrix() through a null pointer
      deref == IF activeCamera = NullCamera /\ ub = "crash" THEN <<Segv>> ELSE <<>>
      loop == modelLoop(mapValues(rm.registeredModels), 1, -1, categorizedLights,
                        rm.deadSimpleLight, rm.deadCubeLight, times, ids, ub)
      all == <<[op |-> "switchToWindowViewport", pass |-> "main"],
               [op |-> "clearScreen", pass |-> "main"]>> \o deref \o loop.calls
  IN [calls |-> untilSegv(all),
      crashed |-> hasSegv(all),
      rm |-> [rm EXCEPT !.registeredCameras = cameras,
                        !.lastTime = IF hasSegv(all) THEN @ ELSE currentTime],
      ids |-> loop.ids]

(***************************************************************************)
(* RenderManager::render.                                                  *)
(***************************************************************************)
\* render() with the two passes issued in the wrong order.
renderMainPassFirst(rm, ids, currentTime, ub) ==
  LET shadow == renderLights(rm.registeredLights, rm.registeredModels, ids)
      main == renderModels(rm, shadow.categorizedLights, shadow.ids, currentTime, ub)
  IN [calls |-> main.calls \o shadow.calls,
      crashed |-> main.crashed,
      rm |-> main.rm,
      ids |-> main.ids]

render(rm, ids, currentTime, ub) ==
  LET shadow == renderLights(rm.registeredLights, rm.registeredModels, ids)
      main == renderModels(rm, shadow.categorizedLights, shadow.ids, currentTime, ub)
  IN [calls |-> shadow.calls \o main.calls,
      crashed |-> main.crashed,
      rm |-> main.rm,
      ids |-> main.ids]

(***************************************************************************)
(* RenderManager: the registries.  Each operation maps the manager record  *)
(* rm to the manager record after the call.                                *)
(***************************************************************************)
\* registerDeadSimpleLight that also puts the placeholder among the lights.
registerDeadSimpleLightAsLight(rm, light) ==
  [rm EXCEPT !.deadSimpleLight = light,
             !.registeredLights = mapInsert(@, getLightId(light), light)]

registerDeadSimpleLight(rm, light) == [rm EXCEPT !.deadSimpleLight = light]

registerDeadCubeLight(rm, light) == [rm EXCEPT !.deadCubeLight = light]

registerLight(rm, light) ==
  [rm EXCEPT !.registeredLights = mapInsert(@, getLightId(light), light)]

deregisterLight(rm, lightId) ==
  [rm EXCEPT !.registeredLights = mapErase(@, lightId)]

registerModel(rm, model) ==
  [rm EXCEPT !.registeredModels = mapInsert(@, getModelId(model), model)]

\* deregisterModel erasing from the registry of the lights.
deregisterModelFromLights(rm, modelId) ==
  [rm EXCEPT !.registeredLights = mapErase(@, modelId)]

deregisterModel(rm, modelId) ==
  [rm EXCEPT !.registeredModels = mapErase(@, modelId)]

registerCamera(rm, camera) ==
  [rm EXCEPT !.registeredCameras = mapInsert(@, getCameraId(camera), camera)]

deregisterCamera(rm, cameraId) ==
  [rm EXCEPT !.registeredCameras = mapErase(@, cameraId)]

registerActiveCamera(rm, cameraId) == [rm EXCEPT !.activeCameraId = cameraId]

\* The RenderManager singleton as a record of its fields.
RM ==
  [activeCameraId |-> activeCameraId,
   deadSimpleLight |-> deadSimpleLight,
   deadCubeLight |-> deadCubeLight,
   registeredLights |-> registeredLights,
   registeredModels |-> registeredModels,
   registeredCameras |-> registeredCameras,
   startTime |-> startTime,
   lastTime |-> lastTime]

\* The fields of the singleton become those of the record r.
SetRM(r) ==
  /\ activeCameraId' = r.activeCameraId
  /\ deadSimpleLight' = r.deadSimpleLight
  /\ deadCubeLight' = r.deadCubeLight
  /\ registeredLights' = r.registeredLights
  /\ registeredModels' = r.registeredModels
  /\ registeredCameras' = r.registeredCameras
  /\ startTime' = r.startTime
  /\ lastTime' = r.lastTime

\* A call of a RenderManager method that issues no graphics call.
Call(r) ==
  /\ ~crashed
  /\ SetRM(r)
  /\ glCalls' = <<>>
  /\ UNCHANGED <<attributeIds, arrays, boundFramebuffer, crashed, now, shotVars>>

RegisterDeadSimpleLight == Call(registerDeadSimpleLight(RM, DeadSimple))
RegisterDeadCubeLight == Call(registerDeadCubeLight(RM, DeadCube))
RegisterLight(light) == Call(registerLight(RM, light))
\* deregisterLight(std::shared_ptr<LightBase>) and deregisterLight(std::string)
DeregisterLightPtr(light) == Call(deregisterLight(RM, getLightId(light)))
DeregisterLight(lightId) == Call(deregisterLight(RM, lightId))
RegisterModel(model) == Call(registerModel(RM, model))
DeregisterModelPtr(model) == Call(deregisterModel(RM, getModelId(model)))
DeregisterModel(modelId) == Call(deregisterModel(RM, modelId))
RegisterCamera(camera) == Call(registerCamera(RM, camera))
DeregisterCameraPtr(camera) == Call(deregisterCamera(RM, getCameraId(camera)))
DeregisterCamera(cameraId) == Call(deregisterCamera(RM, cameraId))
RegisterActiveCameraPtr(camera) == Call(registerActiveCamera(RM, getCameraId(camera)))
RegisterActiveCamera(cameraId) == Call(registerActiveCamera(RM, cameraId))

\* glBindFramebuffer(GL_FRAMEBUFFER, id): the framebuffer bound once the
\* calls have been issued, `before` when none of them binds one.
boundAfter(calls, before) ==
  IF \E i \in 1..Len(calls) : calls[i].op = "glBindFramebuffer"
  THEN calls[CHOOSE i \in 1..Len(calls) :
               /\ calls[i].op = "glBindFramebuffer"
               /\ \A j \in (i + 1)..Len(calls) : calls[j].op # "glBindFramebuffer"
            ].framebuffer
  ELSE before

\* One frame: render(), with either outcome of a read through a null pointer.
Render ==
  /\ ~crashed
  /\ \E ub \in UBOutcomes :
       LET r == render(RM, attributeIds, now, ub)
       IN /\ SetRM(r.rm)
          /\ glCalls' = r.calls
          /\ boundFramebuffer' = boundAfter(glCalls', boundFramebuffer)
          /\ crashed' = r.crashed
          /\ attributeIds' = r.ids
  /\ UNCHANGED <<arrays, now, shotVars>>

(***************************************************************************)
(* ModelManager and LightManager (include/models.cpp, include/light.cpp)   *)
(* are not among the sources: their registries follow section 4.1 of the   *)
(* specification (register inserts or overwrites by identifier,            *)
(* deregister removes by identifier and is a no-op when absent, getAll     *)
(* returns the entries in identifier order, no other side effect).         *)
(***************************************************************************)
mmRegisterModel(models, model) ==
  [x \in DOMAIN models \cup {model.id} |-> IF x = model.id THEN model ELSE models[x]]

mmDeregisterModel(models, modelId) == [x \in DOMAIN models \ {modelId} |-> models[x]]

getAllModels(models) == mapValues(models)

lmRegisterLight(lights, light) ==
  [x \in DOMAIN lights \cup {light.id} |-> IF x = light.id THEN light ELSE lights[x]]

lmDeregisterLight(lights, light) == [x \in DOMAIN lights \ {light.id} |-> lights[x]]

(***************************************************************************)
(* ShotModel.  The scene: enemies "Enemy", one model of another name, and  *)
(* the shots; the identifiers are ordered other < enemies < shots.  w is   *)
(* the part of the program a shot acts on:                                 *)
(*   [models, lights, shots, isShotLightPresent, lastShotLightChange].     *)
(***************************************************************************)
ShotIds == 1..MaxShots
EnemyIds == 1..MaxEnemies
\* The identifier of the model of another name sorts before the enemies'.
PlayerId == 0
ShotModelId(s) == 100 + s
\* getModelId() + "::ShotLight"
ShotLightId(s) == 100 + s

EnemyModel(e) == [id |-> e, name |-> "Enemy"]
PlayerModel == [id |-> PlayerId, name |-> "Player"]
ShotModelOf(s) == [id |-> ShotModelId(s), name |-> "Shot"]

Position(z) == [x |-> 0, y |-> 0, z |-> z]
NullShotLight == [id |-> 0, position |-> Position(0)]
\* Where a shot is when it is fired.
SpawnPositions == {Position(0)}
\* By how many milliseconds the clock advances between two readings.
TickSteps == {300}

NoShot == [status |-> "none", position |-> Position(0), lastTime |-> 0,
           shotLight |-> NullShotLight]

\* A shot whose object has been destroyed.
Ended == [NoShot EXCEPT !.status = "ended"]

\* shotLight->setLightPosition(p): the light object is shared with the
\* registry of the light manager.
setLightPosition(w, s, p) ==
  LET id == w.shots[s].shotLight.id
  IN [w EXCEPT !.shots[s].shotLight.position = p,
               !.lights = [x \in DOMAIN @ |-> IF x = id THEN [@[x] EXCEPT !.position = p]
                                                        ELSE @[x]]]

destroyShotLight(w, s) ==
  LET w1 == IF w.shots[s].shotLight # NullShotLight
            THEN [w EXCEPT !.lights = lmDeregisterLight(@, w.shots[s].shotLight),
                           !.shots[s].shotLight = NullShotLight]
            ELSE w
  IN [w1 EXCEPT !.isShotLightPresent = FALSE]

createShotLight(w, s) ==
  LET w1 == destroyShotLight(w, s)
      light == [id |-> ShotLightId(s), position |-> w1.shots[s].position]
  IN [w1 EXCEPT !.shots[s].shotLight = light,
                !.lights = lmRegisterLight(@, light),
                !.isShotLightPresent = TRUE]

\* updateShotLight without the branch that destroys the light.
updateShotLightKeepsLight(w, s) ==
  IF w.isShotLightPresent
  THEN LET w1 == IF w.shots[s].shotLight = NullShotLight
                 THEN createShotLight(w, s) ELSE w
       IN setLightPosition(w1, s, w1.shots[s].position)
  ELSE w

updateShotLight(w, s) ==
  IF w.isShotLightPresent
  THEN LET w1 == IF w.shots[s].shotLight = NullShotLight
                 THEN createShotLight(w, s) ELSE w
       IN setLightPosition(w1, s, w1.shots[s].position)
  ELSE IF w.shots[s].shotLight # NullShotLight
       THEN destroyShotLight(w, s)
       ELSE w

\* The constructor, at the position the shot is fired from.
construct(currentTime, position) ==
  [status |-> "live", position |-> position, lastTime |-> currentTime,
   shotLight |-> NullShotLight]

init(w, s) == IF w.isShotLightPresent THEN createShotLight(w, s) ELSE w

\* deinit() without the assignment that puts the flag back.
deinitLeavesFlagOff(w, s) ==
  IF w.isShotLightPresent THEN destroyShotLight(w, s) ELSE w

deinit(w, s) ==
  IF w.isShotLightPresent
  THEN [destroyShotLight(w, s) EXCEPT !.isShotLightPresent = TRUE]
  ELSE w

\* The expiry test moved behind the boundary by one tenth.
beyondBoundaryLate(position) == position.z < ExpiryBoundary - 1

\* currentPosition.z < -50.0
beyondBoundary(position) == position.z < ExpiryBoundary

\* The toggle without its debounce.
toggleDueOnKey(keyPressed, currentTime, lastChange) == keyPressed

\* isKeyPressed(GLFW_KEY_H) && (currentTime - lastShotLightChange) > 0.5
toggleDue(keyPressed, currentTime, lastChange) ==
  keyPressed /\ (currentTime - lastChange) > ToggleInterval

toggle(w, currentTime) ==
  [w EXCEPT !.isShotLightPresent = ~@, !.lastShotLightChange = currentTime]

\* An update that leaves the shot where it is.
movedNowhere(position, deltaTime) == position

\* getModelPosition() - glm::vec3(0.0, 0.0, 100.0 * deltaTime)
moved(position, deltaTime) == [position EXCEPT !.z = @ - deltaTime]

\* The index in the snapshot of the first model named "Enemy" whose collider
\* overlaps the shot's (haveShapesCollided), 0 when there is none.
firstCollision(models, overlap) ==
  LET hits == {i \in 1..Len(models) :
                 models[i].name = "Enemy" /\ models[i].id \in overlap}
  IN IF hits = {} THEN 0 ELSE CHOOSE i \in hits : \A j \in hits : i <= j

\* The scan without its break: every overlapping enemy is deregistered.
collisionScanNoBreak(w, s, overlap) ==
  LET models == getAllModels(w.models)
      hits == {models[i].id : i \in {j \in 1..Len(models) :
                 models[j].name = "Enemy" /\ models[j].id \in overlap}}
  IN IF hits = {} THEN w
     ELSE [w EXCEPT !.models = [x \in DOMAIN @ \ (hits \cup {ShotModelId(s)}) |-> @[x]]]

\* The scan without its test of the model's name.
collisionScanAnyName(w, s, overlap) ==
  LET models == getAllModels(w.models)
      hits == {i \in 1..Len(models) : models[i].id \in overlap}
  IN IF hits = {} THEN w
     ELSE LET hit == CHOOSE i \in hits : \A j \in hits : i <= j
          IN [w EXCEPT !.models =
                mmDeregisterModel(mmDeregisterModel(@, models[hit].id), ShotModelId(s))]

\* Lines 184-201: the scan over a snapshot of the registered models.
collisionScan(w, s, overlap) ==
  LET models == getAllModels(w.models)
      hit == firstCollision(models, overlap)
  IN IF hit = 0 THEN w
     ELSE [w EXCEPT !.models =
             mmDeregisterModel(mmDeregisterModel(@, models[hit].id), ShotModelId(s))]

\* update() that moves the shot before it tests the boundary.
updateMoveFirst(w, s, currentTime, keyPressed, overlap) ==
  LET deltaTime == currentTime - w.shots[s].lastTime
      w0 == [w EXCEPT !.shots[s].position = moved(@, deltaTime)]
  IN IF beyondBoundary(w0.shots[s].position)
     THEN [w0 EXCEPT !.models = mmDeregisterModel(@, ShotModelId(s))]
     ELSE LET w1 == IF toggleDue(keyPressed, currentTime, w0.lastShotLightChange)
                    THEN toggle(w0, currentTime) ELSE w0
              w3 == updateShotLight(w1, s)
              w4 == collisionScan(w3, s, overlap)
          IN [w4 EXCEPT !.shots[s].lastTime = currentTime]

\* update() that goes on after the expiry instead of returning.
updateNoEarlyReturn(w, s, currentTime, keyPressed, overlap) ==
  LET deltaTime == currentTime - w.shots[s].lastTime
      w0 == IF beyondBoundary(w.shots[s].position)
            THEN [w EXCEPT !.models = mmDeregisterModel(@, ShotModelId(s))]
            ELSE w
      w1 == IF toggleDue(keyPressed, currentTime, w0.lastShotLightChange)
            THEN toggle(w0, currentTime) ELSE w0
      w2 == [w1 EXCEPT !.shots[s].position = moved(@, deltaTime)]
      w3 == updateShotLight(w2, s)
      w4 == collisionScan(w3, s, overlap)
  IN [w4 EXCEPT !.shots[s].lastTime = currentTime]

update(w, s, currentTime, keyPressed, overlap) ==
  LET deltaTime == currentTime - w.shots[s].lastTime
  IN IF beyondBoundary(w.shots[s].position)
     THEN [w EXCEPT !.models = mmDeregisterModel(@, ShotModelId(s))]
     ELSE LET w1 == IF toggleDue(keyPressed, currentTime, w.lastShotLightChange)
                    THEN toggle(w, currentTime) ELSE w
              w2 == [w1 EXCEPT !.shots[s].position = moved(@, deltaTime)]
              w3 == updateShotLight(w2, s)
              w4 == collisionScan(w3, s, overlap)
          IN [w4 EXCEPT !.shots[s].lastTime = currentTime]

\* The part of the program a shot acts on, as a record.
W ==
  [models |-> managedModels,
   lights |-> managedLights,
   shots |-> shots,
   isShotLightPresent |-> isShotLightPresent,
   lastShotLightChange |-> lastShotLightChange]

SetW(w) ==
  /\ managedModels' = w.models
  /\ managedLights' = w.lights
  /\ shots' = w.shots
  /\ isShotLightPresent' = w.isShotLightPresent
  /\ lastShotLightChange' = w.lastShotLightChange

NoFlip == [time |-> LastShotLightChangeInit, shot |-> 0]

\* The history of the flag: the step changed its value or not.
RecordFlip(s) ==
  lastFlip' = IF isShotLightPresent' # isShotLightPresent
              THEN [time |-> now, shot |-> s]
              ELSE lastFlip

\* The player fires shot s: the object is constructed at the position it is
\* fired from, registered with the model manager and initialised.
SpawnShot(s) ==
  /\ shots[s].status = "none"
  /\ \A r \in ShotIds : r < s => shots[r].status # "none"
  /\ \E position \in SpawnPositions :
       LET w0 == [W EXCEPT !.shots[s] = construct(now, position),
                           !.models = mmRegisterModel(@, ShotModelOf(s))]
       IN SetW(init(w0, s))
  /\ RecordFlip(s)
  /\ lastOp' = [op |-> "spawn", shot |-> s]
  /\ UNCHANGED <<renderVars, now, ticks, pending>>

\* The update pass calls update() of the next shot of its snapshot, in the
\* order of the identifiers; the state of the key and the models whose
\* colliders overlap the shot's (of the enemies and the model of another
\* name) are inputs.
UpdateShot(s) ==
  /\ s \in pending
  /\ \A r \in pending : s <= r
  /\ shots[s].status = "live"
  /\ ShotModelId(s) \in DOMAIN managedModels
  /\ \E keyPressed \in BOOLEAN,
        overlap \in SUBSET (DOMAIN managedModels \cap (EnemyIds \cup {PlayerId})) :
       /\ SetW(update(W, s, now, keyPressed, overlap))
       /\ lastOp' = [op |-> "update", shot |-> s, keyPressed |-> keyPressed,
                     overlap |-> overlap]
  /\ RecordFlip(s)
  /\ pending' = pending \ {s}
  /\ UNCHANGED <<renderVars, now, ticks>>

\* deinit() of a shot that is no longer registered.
DeinitShot(s) ==
  /\ shots[s].status = "live"
  /\ ShotModelId(s) \notin DOMAIN managedModels
  /\ SetW([deinit(W, s) EXCEPT !.shots[s] = Ended])
  /\ RecordFlip(s)
  /\ lastOp' = [op |-> "deinit", shot |-> s]
  /\ UNCHANGED <<renderVars, now, ticks, pending>>

\* The next frame begins once the update pass is over: the clock advances
\* and the update pass takes its snapshot of the registered models.
Tick ==
  /\ ticks < MaxTicks
  /\ pending = {}
  /\ \E d \in TickSteps : now' = now + d
  /\ ticks' = ticks + 1
  /\ pending' = {s \in ShotIds : ShotModelId(s) \in DOMAIN managedModels}
  /\ lastOp' = [op |-> "tick"]
  /\ UNCHANGED <<renderVars, isShotLightPresent, lastShotLightChange, shots,
                 managedModels, managedLights, lastFlip>>

\* No shot has been fired; the statics are as initialised at lines 209-211.
InitShots ==
  /\ ticks = 0
  /\ isShotLightPresent = TRUE
  /\ lastShotLightChange = LastShotLightChangeInit
  /\ shots = [s \in ShotIds |-> NoShot]
  /\ managedLights = EmptyMap
  /\ lastFlip = NoFlip
  /\ pending = {}

\* The scene of SpecShot: the enemies and the model of another name.
Scene ==
  [x \in EnemyIds \cup {PlayerId} |->
     IF x = PlayerId THEN PlayerModel ELSE EnemyModel(x)]

(***************************************************************************)
(* The state after construction of the singletons (lines 79, 101-107).     *)
(***************************************************************************)
InitRender ==
  /\ activeCameraId = 0
  /\ deadSimpleLight = NullLight
  /\ deadCubeLight = NullLight
  /\ registeredLights = EmptyMap
  /\ registeredModels = EmptyMap
  /\ registeredCameras = EmptyMap
  /\ startTime = 0
  /\ lastTime = 0
  /\ attributeIds = {}
  /\ arrays = [a \in 1..MaxArrays |-> NoAttributeId]
  /\ glCalls = <<>>
  /\ boundFramebuffer = 0
  /\ crashed = FALSE

NoOp == [op |-> "none"]

Init ==
  /\ InitRender
  /\ InitShots
  /\ managedModels = EmptyMap
  /\ now = 0
  /\ lastOp = NoOp

\* The entities the frame loop registers: lights of both variants under
\* every identifier, models whose shaders repeat and differ, one camera.
FrameLights == Lights
FrameModels == {m \in Models : m.id = 1 \/ m.shader = 3}
FrameCamera == [id |-> 1, obj |-> 1]

\* The frame loop: the scene is changed between frames and then rendered.
Next ==
  \/ RegisterDeadSimpleLight /\ UNCHANGED lastOp
  \/ RegisterDeadCubeLight /\ UNCHANGED lastOp
  \/ \E l \in FrameLights : RegisterLight(l) /\ UNCHANGED lastOp
  \/ \E id \in LightIds : DeregisterLight(id) /\ UNCHANGED lastOp
  \/ \E m \in FrameModels : RegisterModel(m) /\ UNCHANGED lastOp
  \/ \E id \in ModelIds : DeregisterModel(id) /\ UNCHANGED lastOp
  \/ RegisterCamera(FrameCamera) /\ UNCHANGED lastOp
  \/ DeregisterCameraPtr(FrameCamera) /\ UNCHANGED lastOp
  \/ RegisterActiveCameraPtr(FrameCamera) /\ UNCHANGED lastOp
  \/ Render /\ UNCHANGED lastOp

Spec == Init /\ [][Next]_vars

(***************************************************************************)
(* What the calls of the last frame show.  render() leaves the lights and  *)
(* the models registered as they were, so right after a frame the          *)
(* registries are those the frame was rendered from.                       *)
(***************************************************************************)
Rendered == glCalls # <<>>
CallIndices == 1..Len(glCalls)
DrawIndices(pass) ==
  {i \in CallIndices : glCalls[i].op = "glDrawArrays" /\ glCalls[i].pass = pass}
SlotIndices(kind) ==
  {i \in CallIndices : glCalls[i].op = "bindShadowTexture" /\ glCalls[i].kind = kind}
IsSimple(l) == getShadowBufferType(l) = "SIMPLE"
IsCube(l) == getShadowBufferType(l) = "CUBE"
\* The registered lights of one variant, in identifier order.
RegisteredSimple == SelectSeq(mapValues(registeredLights), IsSimple)
RegisteredCube == SelectSeq(mapValues(registeredLights), IsCube)
RegisteredOfKind(kind) == IF kind = "SIMPLE" THEN RegisteredSimple ELSE RegisteredCube

\* C1: in every render() all shadow-pass work (bind, clear and one draw per
\* registered light and registered model) is issued before the first call of
\* the main pass, the two passes never interleave, and the main pass uploads
\* the light counts and binds the shadow textures of exactly the lights the
\* shadow pass of this call went through.
C1_ShadowPassBeforeMainPass ==
  Rendered =>
    /\ \A i, j \in CallIndices :
         glCalls[i].pass = "shadow" /\ glCalls[j].pass = "main" => i < j
    /\ \A l \in DOMAIN registeredLights :
         /\ \E b \in CallIndices :
              /\ glCalls[b].op = "glBindFramebuffer"
              /\ glCalls[b].framebuffer = getShadowBufferId(registeredLights[l])
              /\ glCalls[b + 1].op = "clearScreen"
              /\ \A d \in DrawIndices("shadow") : glCalls[d].light = l => b < d
         /\ \A m \in DOMAIN registeredModels :
              Cardinality({d \in DrawIndices("shadow") :
                             glCalls[d].light = l /\ glCalls[d].model = m}) = 1
    /\ \A d \in DrawIndices("shadow") :
         glCalls[d].light \in DOMAIN registeredLights
         /\ glCalls[d].model \in DOMAIN registeredModels
    /\ \A d \in DrawIndices("shadow"), e \in DrawIndices("main") : d < e
    /\ \A i \in CallIndices :
         glCalls[i].op = "glUniforms" =>
           /\ glCalls[i].simpleLightsCount = Len(RegisteredSimple)
           /\ glCalls[i].cubeLightsCount = Len(RegisteredCube)
    /\ \A kind \in ShadowBufferType : \A i \in SlotIndices(kind) :
         ~glCalls[i].placeholder =>
           /\ glCalls[i].slot < Len(RegisteredOfKind(kind))
           /\ glCalls[i].texture =
                getShadowBufferTextureId(RegisteredOfKind(kind)[glCalls[i].slot + 1])

\* A frame with two lights and a model, drawn in both passes.
C1_Witness ==
  /\ Rendered
  /\ ~crashed
  /\ Cardinality(DOMAIN registeredLights) >= 2
  /\ DrawIndices("shadow") # {}
  /\ DrawIndices("main") # {}
  /\ \E i \in SlotIndices("SIMPLE") : ~glCalls[i].placeholder

(***************************************************************************)
(* The registries on their own: every register and deregister method of    *)
(* the manager, called in any order with entities of which two carry the   *)
(* same identifier.  lastOp names the call that led to the state.          *)
(***************************************************************************)
RegistryLights == {l \in Lights : l.id = 1 \/ l.type = "SIMPLE"}
RegistryModels == {m \in Models : m.id = 1 \/ m.shader = 3}
RegistryCameras == {c \in Cameras : c.id = 1 \/ c.obj = 1}

Registered(op, entity) == [op |-> op, entity |-> entity]
Deregistered(op, id, registry) == [op |-> op, id |-> id, present |-> id \in DOMAIN registry]

NextRegistry ==
  \/ \E l \in RegistryLights :
       RegisterLight(l) /\ lastOp' = Registered("registerLight", l)
  \/ \E l \in RegistryLights :
       /\ DeregisterLightPtr(l)
       /\ lastOp' = Deregistered("deregisterLight", getLightId(l), registeredLights)
  \/ \E id \in LightIds :
       /\ DeregisterLight(id)
       /\ lastOp' = Deregistered("deregisterLight", id, registeredLights)
  \/ \E m \in RegistryModels :
       RegisterModel(m) /\ lastOp' = Registered("registerModel", m)
  \/ \E m \in RegistryModels :
       /\ DeregisterModelPtr(m)
       /\ lastOp' = Deregistered("deregisterModel", getModelId(m), registeredModels)
  \/ \E id \in ModelIds :
       /\ DeregisterModel(id)
       /\ lastOp' = Deregistered("deregisterModel", id, registeredModels)
  \/ \E c \in RegistryCameras :
       RegisterCamera(c) /\ lastOp' = Registered("registerCamera", c)
  \/ \E c \in RegistryCameras :
       /\ DeregisterCameraPtr(c)
       /\ lastOp' = Deregistered("deregisterCamera", getCameraId(c), registeredCameras)
  \/ \E id \in CameraIds :
       /\ DeregisterCamera(id)
       /\ lastOp' = Deregistered("deregisterCamera", id, registeredCameras)

SpecRegistry == Init /\ [][NextRegistry]_vars

\* C3: right after register(e) the registry holds e under e's identifier,
\* also when another entity was registered under that identifier before
\* (last write wins); stated for the lights, the models and the cameras.
C3_LastWriteWins ==
  /\ lastOp.op = "registerLight" =>
       /\ getLightId(lastOp.entity) \in DOMAIN registeredLights
       /\ registeredLights[getLightId(lastOp.entity)] = lastOp.entity
  /\ lastOp.op = "registerModel" =>
       /\ getModelId(lastOp.entity) \in DOMAIN registeredModels
       /\ registeredModels[getModelId(lastOp.entity)] = lastOp.entity
  /\ lastOp.op = "registerCamera" =>
       /\ getCameraId(lastOp.entity) \in DOMAIN registeredCameras
       /\ registeredCameras[getCameraId(lastOp.entity)] = lastOp.entity

\* The registry m without its entry under k, every other entry as it was.
Without(m, k) == [x \in DOMAIN m \ {k} |-> m[x]]

\* C4: deregister(id) and deregister(entity) leave the registry without an
\* entry under that identifier and with every other entry as it was; the
\* other two registries are untouched, nothing fails, and when the
\* identifier was absent the registry is exactly what it was.
C4_DeregisterRemovesOnlyThatEntry ==
  [][/\ lastOp'.op = "deregisterLight" =>
          /\ registeredLights' = Without(registeredLights, lastOp'.id)
          /\ lastOp'.id \notin DOMAIN registeredLights =>
               registeredLights' = registeredLights
          /\ UNCHANGED <<registeredModels, registeredCameras>>
          /\ ~crashed'
     /\ lastOp'.op = "deregisterModel" =>
          /\ registeredModels' = Without(registeredModels, lastOp'.id)
          /\ lastOp'.id \notin DOMAIN registeredModels =>
               registeredModels' = registeredModels
          /\ UNCHANGED <<registeredLights, registeredCameras>>
          /\ ~crashed'
     /\ lastOp'.op = "deregisterCamera" =>
          /\ registeredCameras' = Without(registeredCameras, lastOp'.id)
          /\ lastOp'.id \notin DOMAIN registeredCameras =>
               registeredCameras' = registeredCameras
          /\ UNCHANGED <<registeredLights, registeredModels>>
          /\ ~crashed'
    ]_vars

\* A model was deregistered while another model and a light stay registered.
C4_Witness ==
  /\ lastOp.op = "deregisterModel"
  /\ lastOp.present
  /\ registeredModels # EmptyMap
  /\ registeredLights # EmptyMap

(***************************************************************************)
(* Scenes with many lights.  main() has registered both placeholders, a    *)
(* camera and made it active; registerLight has been called for nS simple  *)
(* and nC cube lights under the identifiers 1..nS+nC, the variants laid    *)
(* out over the identifier order in one of three ways.  The scene is then  *)
(* rendered.                                                               *)
(***************************************************************************)
LightOrders == {"simpleFirst", "cubeFirst", "alternate"}

Min(a, b) == IF a < b THEN a ELSE b

SceneLightType(nS, nC, order, i) ==
  CASE order = "simpleFirst" -> IF i <= nS THEN "SIMPLE" ELSE "CUBE"
    [] order = "cubeFirst" -> IF i <= nC THEN "CUBE" ELSE "SIMPLE"
    [] order = "alternate" ->
         IF i <= 2 * Min(nS, nC)
         THEN (IF i % 2 = 1 THEN "SIMPLE" ELSE "CUBE")
         ELSE (IF nS > nC THEN "SIMPLE" ELSE "CUBE")

SceneLights(nS, nC, order) ==
  [i \in 1..(nS + nC) |-> [id |-> i, type |-> SceneLightType(nS, nC, order, i)]]

SceneModels == {EmptyMap,
                [i \in {1} |-> [id |-> 1, shader |-> 3]],
                [i \in {1, 2} |-> [id |-> i, shader |-> 2 + i]]}

InitSlots ==
  /\ \E nS \in 0..MaxSimpleLights, nC \in 0..MaxCubeLights, order \in LightOrders :
       registeredLights = SceneLights(nS, nC, order)
  /\ registeredModels \in SceneModels
  /\ registeredCameras = [i \in {1} |-> FrameCamera]
  /\ activeCameraId = 1
  /\ deadSimpleLight = DeadSimple
  /\ deadCubeLight = DeadCube
  /\ startTime = 0
  /\ lastTime = 0
  /\ attributeIds = {}
  /\ arrays = [a \in 1..MaxArrays |-> NoAttributeId]
  /\ glCalls = <<>>
  /\ boundFramebuffer = 0
  /\ crashed = FALSE
  /\ InitShots
  /\ managedModels = EmptyMap
  /\ now = 0
  /\ lastOp = NoOp

NextSlots == Render /\ UNCHANGED lastOp

SpecSlots == InitSlots /\ [][NextSlots]_vars

\* The slots of one variant bound for the model of the main-pass draw d.
SlotsOf(kind, d) ==
  {i \in SlotIndices(kind) : glCalls[i].model = glCalls[d].model}

\* Exactly `bound` slots of the variant are bound for the draw d: slot i below
\* the registered count with the i-th light's shadow texture, every slot from
\* the count up to the bound with the placeholder's.
FilledTo(kind, d, bound, dead) ==
  /\ Cardinality(SlotsOf(kind, d)) = bound
  /\ {glCalls[i].slot : i \in SlotsOf(kind, d)} = 0..(bound - 1)
  /\ \A i \in SlotsOf(kind, d) :
       /\ i < d
       /\ IF glCalls[i].slot < Len(RegisteredOfKind(kind))
          THEN glCalls[i].texture =
                 getShadowBufferTextureId(RegisteredOfKind(kind)[glCalls[i].slot + 1])
          ELSE glCalls[i].texture = getShadowBufferTextureId(dead)

\* C2: for every model drawn in the main pass and any number of registered
\* lights, exactly 7 simple and exactly 8 cube shadow-texture slots are bound:
\* the registered lights' textures first, the placeholder's in the rest.
C2_PlaceholderFill ==
  Rendered =>
    \A d \in DrawIndices("main") :
      /\ FilledTo("SIMPLE", d, SimpleSlotBound, deadSimpleLight)
      /\ FilledTo("CUBE", d, CubeSlotBound, deadCubeLight)

(***************************************************************************)
(* The shots of a scene: shots are fired, updated by the frame loop while  *)
(* registered and de-initialised once removed, while the clock advances.   *)
(***************************************************************************)
InitShot ==
  /\ InitRender
  /\ InitShots
  /\ managedModels = Scene
  /\ now = 0
  /\ lastOp = NoOp

NextShot ==
  \/ \E s \in ShotIds : SpawnShot(s)
  \/ \E s \in ShotIds : UpdateShot(s)
  \/ \E s \in ShotIds : DeinitShot(s)
  \/ Tick

SpecShot == InitShot /\ [][NextShot]_vars

\* The models named "Enemy" among the colliders that overlapped the shot in
\* the update() a step performs, as registered before the step.
OverlappingEnemies ==
  {x \in lastOp'.overlap : managedModels[x].name = "Enemy"}

\* The step is an update() of a shot that is not beyond the boundary.
UpdateRuns ==
  /\ lastOp'.op = "update"
  /\ ~(shots[lastOp'.shot].position.z < ExpiryBoundary)

\* The step is an update() of a shot that is beyond the boundary.
UpdateExpires ==
  /\ lastOp'.op = "update"
  /\ shots[lastOp'.shot].position.z < ExpiryBoundary

\* C5 as stated: the update() that moves a shot from z >= -50.0 to z < -50.0
\* leaves it deregistered from the model registry.
C5_DeregisteredByCrossingUpdate ==
  [][lastOp'.op = "update" =>
       LET s == lastOp'.shot
       IN (shots[s].position.z >= ExpiryBoundary /\ shots'[s].position.z < ExpiryBoundary)
            => ShotModelId(s) \notin DOMAIN managedModels']_vars

\* C5, amended: the update() that moves a shot from z >= -50.0 to z < -50.0
\* leaves it registered unless an overlapping enemy removes it in that call;
\* it is the next update(), the first that starts with z < -50.0, that leaves
\* it deregistered.
C5_DeregisteredByNextUpdate ==
  [][lastOp'.op = "update" =>
       LET s == lastOp'.shot
       IN /\ (/\ shots[s].position.z >= ExpiryBoundary
              /\ shots'[s].position.z < ExpiryBoundary
              /\ OverlappingEnemies = {})
               => ShotModelId(s) \in DOMAIN managedModels'
          /\ shots[s].position.z < ExpiryBoundary
               => ShotModelId(s) \notin DOMAIN managedModels']_vars

\* A shot beyond the boundary that no enemy overlapped has just been
\* deregistered by its update(): an earlier update() moved it across the
\* boundary and left it registered.
C5_Witness ==
  /\ lastOp.op = "update"
  /\ lastOp.overlap = {}
  /\ shots[lastOp.shot].position.z < ExpiryBoundary
  /\ shots[lastOp.shot].lastTime < now
  /\ ShotModelId(lastOp.shot) \notin DOMAIN managedModels

\* C6: whichever shot is updated, the flag changes value only in an update()
\* that sees the key down more than 0.5 s after the previous change of the
\* flag and at a clock reading at which it has not changed yet; a request
\* less than 0.4 s after a request that changed the flag leaves it alone, and
\* a request with no change in the last 0.5 s does change it.
C6_ToggleDebounced ==
  [][/\ isShotLightPresent' # isShotLightPresent =>
          /\ UpdateRuns
          /\ lastOp'.keyPressed
          /\ lastFlip.shot # 0 =>
               /\ now - lastFlip.time > ToggleInterval
               /\ now # lastFlip.time
     /\ (UpdateRuns /\ lastOp'.keyPressed) =>
          /\ (lastFlip.shot # 0 /\ now - lastFlip.time < 400) =>
               isShotLightPresent' = isShotLightPresent
          /\ (lastFlip.shot = 0 \/ now - lastFlip.time > ToggleInterval) =>
               isShotLightPresent' # isShotLightPresent]_vars

\* Two shots are updated in one frame with the key down: the first changed
\* the flag, the second, just updated, did not.
C6_Witness ==
  /\ lastOp.op = "update"
  /\ lastOp.keyPressed
  /\ shots[lastOp.shot].lastTime = now
  /\ lastFlip.shot \notin {0, lastOp.shot}
  /\ lastFlip.time = now

\* C7: an update() that reaches the scan with an overlapping model named
\* "Enemy" deregisters one such enemy and the shot, and leaves every other
\* model registered and as it was: the enemies that do not overlap and the
\* models of another name, overlapping or not.
C7_CollisionRemovesEnemyAndShot ==
  [][UpdateRuns =>
       LET shot == ShotModelId(lastOp'.shot)
       IN /\ OverlappingEnemies # {} =>
               /\ shot \notin DOMAIN managedModels'
               /\ \E e \in OverlappingEnemies : e \notin DOMAIN managedModels'
          /\ \A x \in DOMAIN managedModels \ {shot} :
               (x \notin lastOp'.overlap \/ managedModels[x].name # "Enemy") =>
                 /\ x \in DOMAIN managedModels'
                 /\ managedModels'[x] = managedModels[x]]_vars

\* An update() in which an enemy and the model of another name overlapped
\* the shot: the shot and the enemy are gone, the other model and an enemy
\* that did not overlap are still registered.
C7_Witness ==
  /\ lastOp.op = "update"
  /\ shots[lastOp.shot].lastTime = now
  /\ PlayerId \in lastOp.overlap
  /\ PlayerId \in DOMAIN managedModels
  /\ ShotModelId(lastOp.shot) \notin DOMAIN managedModels
  /\ \E e \in lastOp.overlap \cap EnemyIds : e \notin DOMAIN managedModels
  /\ \E e \in EnemyIds \ lastOp.overlap : e \in DOMAIN managedModels

\* C8: one update() deregisters at most one enemy; when several enemies
\* overlap the shot it is the one whose identifier comes first, and the
\* other overlapping enemies are still registered after the call.
C8_AtMostOneCollision ==
  [][UpdateRuns =>
       LET gone == (DOMAIN managedModels \ DOMAIN managedModels') \cap EnemyIds
       IN /\ Cardinality(gone) <= 1
          /\ OverlappingEnemies # {} =>
               gone = {CHOOSE e \in OverlappingEnemies :
                         \A f \in OverlappingEnemies : e <= f}]_vars

\* Both enemies overlapped the shot in its update(): the first is gone with
\* the shot, the second is still registered.
C8_Witness ==
  /\ lastOp.op = "update"
  /\ shots[lastOp.shot].lastTime = now
  /\ Cardinality(lastOp.overlap \cap EnemyIds) >= 2
  /\ ShotModelId(lastOp.shot) \notin DOMAIN managedModels
  /\ \E e \in lastOp.overlap \cap EnemyIds : e \in DOMAIN managedModels

\* C9: after an update() that does not expire the shot, the shot holds a
\* light exactly when the flag is true; the light it holds is the one
\* registered under its identifier and is at the shot's position after the
\* move, and when it holds none, none is registered under its identifier.
C9_LightFollowsFlag ==
  [][UpdateRuns =>
       LET s == lastOp'.shot
           shot == shots'[s]
           id == ShotLightId(s)
       IN /\ shot.position = [shots[s].position EXCEPT !.z = @ - (now - shots[s].lastTime)]
          /\ (shot.shotLight # NullShotLight) <=> isShotLightPresent'
          /\ shot.shotLight # NullShotLight =>
               /\ id \in DOMAIN managedLights'
               /\ managedLights'[id] = shot.shotLight
               /\ shot.shotLight.position = shot.position
          /\ shot.shotLight = NullShotLight => id \notin DOMAIN managedLights']_vars

\* Another shot turned the flag off; the update() of this shot, which was
\* fired with the flag on, has left it without a light.
C9_Witness ==
  /\ lastOp.op = "update"
  /\ shots[lastOp.shot].lastTime = now
  /\ lastFlip.shot \notin {0, lastOp.shot}
  /\ ~isShotLightPresent
  /\ shots[lastOp.shot].shotLight = NullShotLight
  /\ ShotLightId(lastOp.shot) \notin DOMAIN managedLights

\* C10: an update() that finds the shot beyond the boundary removes the shot
\* from the model registry and changes nothing else: every shot, the flag,
\* the time of the last toggle, the light registry and every other model are
\* as before, whatever the key and the overlapping colliders.
C10_ExpiryOnlyDeregisters ==
  [][UpdateExpires =>
       /\ managedModels' = Without(managedModels, ShotModelId(lastOp'.shot))
       /\ UNCHANGED <<shots, isShotLightPresent, lastShotLightChange,
                      managedLights>>]_vars

\* A shot beyond the boundary has been updated with the key down, the
\* debounce interval over and an enemy overlapping it: the enemy is still
\* registered, the time of the last toggle and the shot's lastTime are old.
C10_Witness ==
  /\ lastOp.op = "update"
  /\ lastOp.keyPressed
  /\ shots[lastOp.shot].position.z < ExpiryBoundary
  /\ shots[lastOp.shot].lastTime < now
  /\ now - lastShotLightChange > ToggleInterval
  /\ ShotModelId(lastOp.shot) \notin DOMAIN managedModels
  /\ \E e \in lastOp.overlap \cap EnemyIds : e \in DOMAIN managedModels

\* C11: when the main pass runs while no camera is registered under the
\* active camera identifier (the lookup of line 278 found nothing), the
\* process ends in that frame and no main-pass draw call is issued.
C11_NoActiveCameraIsFatal ==
  (/\ Rendered
   /\ activeCameraId \in DOMAIN registeredCameras
   /\ registeredCameras[activeCameraId] = NullCamera)
    => /\ crashed
       /\ DrawIndices("main") = {}

\* C12: once a shot has ended (deinit() has run on it after its removal from
\* the model registry), no light is registered with the light manager under
\* the shot's light identifier, whatever the flag and whatever the other
\* shots did before.
C12_NoLightOfEndedShot ==
  \A s \in ShotIds :
    shots[s].status = "ended" => ShotLightId(s) \notin DOMAIN managedLights

\* C13: the vertex-attribute identifiers acquired for a draw call are
\* released before the next draw acquires its own: every shadow-pass draw
\* holds identifier 0 alone and every main-pass draw holds 0, 1 and 2, in
\* every frame, and no identifier is in use once render() has returned.
C13_AttributeIdsReleased ==
  /\ attributeIds = {}
  /\ \A i \in CallIndices :
       glCalls[i].op = "glDrawArrays" =>
         glCalls[i].attributes = IF glCalls[i].pass = "shadow" THEN <<0>>
                                 ELSE <<0, 1, 2>>

\* A frame that drew two models in the shadow pass and in the main pass.
C13_Witness ==
  /\ Rendered
  /\ ~crashed
  /\ Cardinality(DrawIndices("shadow")) >= 2
  /\ Cardinality(DrawIndices("main")) >= 2

\* The indices of the calls that bind the shadow framebuffer of a light.
ShadowBindIndices ==
  {i \in CallIndices : /\ glCalls[i].op = "glBindFramebuffer"
                       /\ glCalls[i].framebuffer # 0}

\* C14: the placeholders are not among the lights of a frame: the shadow
\* pass binds the framebuffers of the registered lights, one each, and draws
\* for registered lights only; the counts uploaded in the main pass are the
\* numbers of registered lights of each variant and every slot beyond them
\* is a placeholder slot; and a call that sets a placeholder leaves the
\* light registry as it was.
C14_PlaceholdersNotInLightSet ==
  /\ [](Rendered =>
          /\ {glCalls[i].framebuffer : i \in ShadowBindIndices}
               = {getShadowBufferId(registeredLights[k]) : k \in DOMAIN registeredLights}
          /\ Cardinality(ShadowBindIndices) = Cardinality(DOMAIN registeredLights)
          /\ \A d \in DrawIndices("shadow") :
               glCalls[d].light \in DOMAIN registeredLights
          /\ \A i \in CallIndices :
               glCalls[i].op = "glUniforms" =>
                 /\ glCalls[i].simpleLightsCount =
                      Cardinality({k \in DOMAIN registeredLights :
                                     IsSimple(registeredLights[k])})
                 /\ glCalls[i].cubeLightsCount =
                      Cardinality({k \in DOMAIN registeredLights :
                                     IsCube(registeredLights[k])})
          /\ \A kind \in ShadowBufferType : \A i \in SlotIndices(kind) :
               glCalls[i].placeholder <=>
                 glCalls[i].slot >= Len(RegisteredOfKind(kind)))
  /\ [][(deadSimpleLight' # deadSimpleLight \/ deadCubeLight' # deadCubeLight)
          => registeredLights' = registeredLights]_vars

\* A frame rendered with both placeholders set, a registered light and a
\* model: the shadow pass drew for the registered light alone.
C14_Witness ==
  /\ Rendered
  /\ ~crashed
  /\ deadSimpleLight = DeadSimple
  /\ deadCubeLight = DeadCube
  /\ Cardinality(DOMAIN registeredLights) = 1
  /\ DrawIndices("shadow") # {}
  /\ DrawIndices("main") # {}

\* C15: the light details of every registered light, as uploaded in the main
\* pass, carry the shadow-buffer resolution: mapWidth is the framebuffer
\* width (1600) and mapHeight the framebuffer height (1200), twice the
\* viewport's.
C15_MapSizeIsFramebufferSize ==
  \A kind \in ShadowBufferType : \A i \in SlotIndices(kind) :
    ~glCalls[i].placeholder =>
      /\ glCalls[i].mapWidth = FRAMEBUFFER_WIDTH
      /\ glCalls[i].mapWidth = 2 * VIEWPORT_WIDTH
      /\ glCalls[i].mapHeight = FRAMEBUFFER_HEIGHT
      /\ glCalls[i].mapHeight = 2 * VIEWPORT_HEIGHT

(***************************************************************************)
(* VertexAttributeArray on its own: objects are constructed and destroyed  *)
(* in any order, more of them than there are identifiers.                  *)
(***************************************************************************)
\* new VertexAttributeArray(...), lines 56-63.
ConstructArray(a) ==
  /\ ~crashed
  /\ arrays[a] = NoAttributeId
  /\ LET id == createAttributeId(attributeIds)
     IN IF id = NoAttributeId
        THEN /\ crashed' = TRUE
             /\ glCalls' = <<[op |-> "cout", pass |-> "none",
                              text |-> "Failed at render"]>>
             /\ UNCHANGED <<attributeIds, arrays>>
        ELSE /\ attributeIds' = attributeIds \cup {id}
             /\ arrays' = [arrays EXCEPT ![a] = id]
             /\ glCalls' = <<>>
             /\ UNCHANGED crashed
  /\ lastOp' = [op |-> "construct", array |-> a, ids |-> attributeIds]
  /\ UNCHANGED <<activeCameraId, deadSimpleLight, deadCubeLight, registeredLights,
                 registeredModels, registeredCameras, startTime, lastTime,
                 boundFramebuffer, now, shotVars>>

\* ~VertexAttributeArray, lines 65-69.
DestructArray(a) ==
  /\ ~crashed
  /\ arrays[a] # NoAttributeId
  /\ attributeIds' = attributeIds \ {arrays[a]}
  /\ arrays' = [arrays EXCEPT ![a] = NoAttributeId]
  /\ glCalls' = <<[op |-> "glDisableVertexAttribArray", pass |-> "none",
                   attribute |-> arrays[a]]>>
  /\ lastOp' = [op |-> "destruct", array |-> a, ids |-> attributeIds]
  /\ UNCHANGED <<activeCameraId, deadSimpleLight, deadCubeLight, registeredLights,
                 registeredModels, registeredCameras, startTime, lastTime,
                 boundFramebuffer, crashed, now, shotVars>>

NextAttributes ==
  \/ \E a \in 1..MaxArrays : ConstructArray(a)
  \/ \E a \in 1..MaxArrays : DestructArray(a)

SpecAttributes == Init /\ [][NextAttributes]_vars

\* The identifiers createAttributeId searches: 0 .. maxId - 1.
AttributeIdSpace == 0..(MaxAttributeId - 1)

\* C16: a new binding gets the smallest identifier of the identifier space
\* that no live binding holds, so live bindings hold different identifiers
\* (three created in a row from none get 0, 1 and 2); when every identifier
\* of the space is held the process ends with a diagnostic and no
\* identifier is handed out.
C16_SmallestFreeIdentifierOrExit ==
  /\ \A a, b \in 1..MaxArrays :
       (a # b /\ arrays[a] # NoAttributeId) => arrays[a] # arrays[b]
  /\ attributeIds = {arrays[a] : a \in 1..MaxArrays} \ {NoAttributeId}
  /\ lastOp.op = "construct" =>
       IF AttributeIdSpace \subseteq lastOp.ids
       THEN /\ crashed
            /\ arrays[lastOp.array] = NoAttributeId
            /\ attributeIds = lastOp.ids
            /\ \E i \in CallIndices : glCalls[i].op = "cout"
       ELSE /\ ~crashed
            /\ arrays[lastOp.array] \in AttributeIdSpace \ lastOp.ids
            /\ \A j \in AttributeIdSpace \ lastOp.ids : arrays[lastOp.array] <= j
  /\ crashed => lastOp.op = "construct"

\* Every identifier was held when one more binding was created: the
\* process has ended.
C16_Witness ==
  /\ lastOp.op = "construct"
  /\ crashed
  /\ AttributeIdSpace \subseteq attributeIds

\* C17: in the main pass every shadow-texture slot, of a registered light
\* or of a placeholder, writes to its sampler uniform the texture unit that
\* was active when its texture was bound; the simple slots use the units
\* that follow the diffuse unit 0 one by one and the cube slots their own
\* units one by one.
C17_SamplerIsBoundUnit ==
  Rendered =>
    /\ \A kind \in ShadowBufferType : \A i \in SlotIndices(kind) :
         glCalls[i].sampler = glCalls[i].unit
    /\ \A i \in SlotIndices("SIMPLE") :
         glCalls[i].unit = glCalls[i].slot + SimpleUnitBase
    /\ \A i \in SlotIndices("CUBE") :
         glCalls[i].unit = glCalls[i].slot + CubeUnitBase

\* The texture units one model's main-pass draw d binds for a variant.
UnitsOf(kind, d) == {glCalls[i].unit : i \in SlotsOf(kind, d)}

\* C18: within one model's main-pass draw, whatever the number of
\* registered lights, the units of the simple slots lie in the simple range
\* (the 7 units after the diffuse unit 0), the units of the cube slots in
\* the cube range (the 8 units after those), and no unit is used by two of
\* the diffuse texture, the simple slots and the cube slots.
C18_TextureUnitsDisjoint ==
  Rendered =>
    \A d \in DrawIndices("main") :
      /\ UnitsOf("SIMPLE", d) \subseteq
           SimpleUnitBase..(SimpleUnitBase + SimpleSlotBound - 1)
      /\ UnitsOf("CUBE", d) \subseteq
           CubeUnitBase..(CubeUnitBase + CubeSlotBound - 1)
      /\ 0 \notin UnitsOf("SIMPLE", d) \cup UnitsOf("CUBE", d)
      /\ UnitsOf("SIMPLE", d) \cap UnitsOf("CUBE", d) = {}

\* The calls of the frame that select a program in one pass.
UseProgramIndices(pass) ==
  {i \in CallIndices : glCalls[i].op = "glUseProgram" /\ glCalls[i].pass = pass}

\* The program in use at call d: that of the last glUseProgram before it,
\* -1 when the frame has selected none yet.
ProgramInUse(d) ==
  LET before == {i \in CallIndices : glCalls[i].op = "glUseProgram" /\ i < d}
  IN IF before = {} THEN -1
     ELSE glCalls[CHOOSE i \in before : \A j \in before : j <= i].program

\* C19: in every frame the program in use at a shadow-pass draw is the
\* shadow shader of the light it draws for and at a main-pass draw the
\* shader of the model it draws; and two program switches that follow each
\* other in one pass select different programs, so none is issued for the
\* program the previous iteration used.
C19_NoStaleProgram ==
  Rendered =>
    /\ \A d \in DrawIndices("shadow") :
         ProgramInUse(d) = getLightShaderId(registeredLights[glCalls[d].light])
    /\ \A d \in DrawIndices("main") :
         ProgramInUse(d) = getModelShaderId(registeredModels[glCalls[d].model])
    /\ \A pass \in {"shadow", "main"} : \A i, j \in UseProgramIndices(pass) :
         (i < j /\ \A k \in UseProgramIndices(pass) : ~(i < k /\ k < j))
           => glCalls[i].program # glCalls[j].program

\* A frame whose shadow pass switched programs between two lights and whose
\* main pass drew two models with one program selected once.
C19_Witness ==
  /\ Rendered
  /\ ~crashed
  /\ Cardinality(UseProgramIndices("shadow")) >= 2
  /\ Cardinality(DrawIndices("main")) >= 2
  /\ Cardinality(UseProgramIndices("main")) = 1

\* C20: a render() call leaves the light, model and camera registries, the
\* active camera identifier and the two placeholders exactly as they were,
\* also when no camera is registered under the active identifier (and the
\* process survives the frame).
C20_RenderOnlyReads ==
  [][(glCalls' # <<>> /\ ~crashed') =>
       UNCHANGED <<registeredLights, registeredModels, registeredCameras,
                   activeCameraId, deadSimpleLight, deadCubeLight>>]_vars

\* The shadow-framebuffer binds of the frame, in the order they were issued.
IsShadowBind(c) == c.op = "glBindFramebuffer" /\ c.framebuffer # 0
ShadowBinds == SelectSeq(glCalls, IsShadowBind)

\* The registered lights of one variant, as a set of identifiers.
LightIdsOfKind(kind) ==
  {k \in DOMAIN registeredLights : getShadowBufferType(registeredLights[k]) = kind}

\* The place of k among the identifiers S, counted from 1 in ascending order.
Rank(k, S) == Cardinality({x \in S : x <= k})

\* C21: every frame visits the registered lights in ascending identifier
\* order (the k-th shadow framebuffer bound is that of the light with the k-th
\* smallest identifier), and the mapping renderLights() returns for the
\* registry has exactly the keys SIMPLE and CUBE, its sequence of a variant
\* holding every registered light of that variant once, at the place its
\* identifier has among the identifiers of the variant: the sequences are a
\* function of the registry contents, not of the registration order.
C21_LightsInIdentifierOrder ==
  Rendered =>
    LET cat == renderLights(registeredLights, registeredModels,
                            attributeIds).categorizedLights
    IN /\ Len(ShadowBinds) = Cardinality(DOMAIN registeredLights)
       /\ \A k \in DOMAIN registeredLights :
            ShadowBinds[Rank(k, DOMAIN registeredLights)].framebuffer
              = getShadowBufferId(registeredLights[k])
       /\ \A d, e \in DrawIndices("shadow") :
            d < e => glCalls[d].light <= glCalls[e].light
       /\ DOMAIN cat = ShadowBufferType
       /\ \A kind \in ShadowBufferType :
            /\ Len(cat[kind]) = Cardinality(LightIdsOfKind(kind))
            /\ \A k \in LightIdsOfKind(kind) :
                 cat[kind][Rank(k, LightIdsOfKind(kind))].light = registeredLights[k]
            /\ \A i \in SlotIndices(kind) :
                 ~glCalls[i].placeholder =>
                   glCalls[i].texture = cat[kind][glCalls[i].slot + 1].textureId

\* A frame rendered with two lights of one variant and a model: both lights
\* are in one sequence, and the scene is reached whichever light was
\* registered first.
C21_Witness ==
  /\ Rendered
  /\ ~crashed
  /\ DOMAIN registeredLights = {1, 2}
  /\ LightIdsOfKind("CUBE") = {1, 2}
  /\ DrawIndices("shadow") # {}
  /\ DrawIndices("main") # {}

\* The framebuffer bound when call d of the frame's calls is issued, the
\* frame having started with `before` bound.
BoundAt(calls, d, before) == boundAfter(SubSeq(calls, 1, d - 1), before)

\* The index of the last framebuffer bind before call d, 0 when there is none.
LastBindBefore(calls, d) ==
  LET binds == {i \in 1..(d - 1) : calls[i].op = "glBindFramebuffer"}
  IN IF binds = {} THEN 0 ELSE CHOOSE i \in binds : \A j \in binds : j <= i

\* C22: in every frame, whatever was rendered before and with any number of
\* registered lights, the framebuffer bound at a shadow-pass draw is the
\* shadow framebuffer of the light it draws for, bound and then cleared
\* before the draw with no other bind in between; the framebuffer bound at
\* a main-pass draw is the window's; and the window's framebuffer is the one
\* bound when render() returns.
C22_RenderTargetPerPass ==
  [][glCalls' # <<>> =>
       LET calls == glCalls'
           draws(pass) == {d \in 1..Len(calls) :
                             calls[d].op = "glDrawArrays" /\ calls[d].pass = pass}
       IN /\ \A d \in draws("shadow") :
               /\ BoundAt(calls, d, boundFramebuffer)
                    = getShadowBufferId(registeredLights[calls[d].light])
               /\ LastBindBefore(calls, d) # 0
               /\ calls[LastBindBefore(calls, d) + 1].op = "clearScreen"
               /\ LastBindBefore(calls, d) + 1 < d
          /\ \A d \in draws("main") : BoundAt(calls, d, boundFramebuffer) = 0
          /\ \A i \in 1..Len(calls) :
               (IsShadowBind(calls[i]) /\ i < Len(calls)) =>
                 \E j \in (i + 1)..Len(calls) :
                   /\ calls[j].op = "glBindFramebuffer"
                   /\ calls[j].framebuffer = 0
                   /\ \A k \in (i + 1)..(j - 1) : calls[k].op # "glBindFramebuffer"
          /\ boundFramebuffer' = 0]_vars

\* A frame with two registered lights and a model: each light's framebuffer
\* was bound for its draw and the main pass drew with the window's bound.
C22_Witness ==
  /\ Rendered
  /\ ~crashed
  /\ Len(ShadowBinds) = 2
  /\ Cardinality(DrawIndices("shadow")) >= 2
  /\ DrawIndices("main") # {}
  /\ boundFramebuffer = 0

\* The draws of one pass for the model m.
DrawsOfModel(pass, m) == {d \in DrawIndices(pass) : glCalls[d].model = m}

\* C23: in every frame the shadow pass draws each registered model once for
\* each registered light and draws nothing else (nothing at all without a
\* registered light); each shadow draw has the whole set of the light's
\* view/projection matrices uploaded, 1 for a SIMPLE and 6 for a CUBE light,
\* and the matrix count uploaded is that number; and a frame that the
\* process survives draws each registered model once in the main pass and
\* nothing else.
C23_EveryModelDrawnOncePerPass ==
  Rendered =>
    /\ \A l \in DOMAIN registeredLights : \A m \in DOMAIN registeredModels :
         Cardinality({d \in DrawsOfModel("shadow", m) : glCalls[d].light = l}) = 1
    /\ Cardinality(DrawIndices("shadow"))
         = Cardinality(DOMAIN registeredLights) * Cardinality(DOMAIN registeredModels)
    /\ registeredLights = EmptyMap => DrawIndices("shadow") = {}
    /\ \A d \in DrawIndices("shadow") :
         /\ glCalls[d].vpMatrices =
              (IF IsCube(registeredLights[glCalls[d].light]) THEN 6 ELSE 1)
         /\ glCalls[d].vpMatrixCount = glCalls[d].vpMatrices
    /\ ~crashed =>
         /\ \A m \in DOMAIN registeredModels :
              Cardinality(DrawsOfModel("main", m)) = 1
         /\ Cardinality(DrawIndices("main")) = Cardinality(DOMAIN registeredModels)

\* A frame with a simple and a cube light and two models.
C23_Witness ==
  /\ Rendered
  /\ ~crashed
  /\ LightIdsOfKind("SIMPLE") # {}
  /\ LightIdsOfKind("CUBE") # {}
  /\ Cardinality(DOMAIN registeredModels) = 2
  /\ Cardinality(DrawIndices("shadow")) = 4
  /\ Cardinality(DrawIndices("main")) = 2

\* C24: init(), deinit() and updateShotLight(), called on any shot in any
\* state of the flag and of the shot's light, return with the flag as it was
\* on entry; and in every step the flag changes value only in an update()
\* that passes the expiry test with the key down more than 0.5 s after the
\* last toggle (firing a shot, de-initialising one and an update() that
\* expires leave it alone).
C24_FlagChangesOnlyByToggle ==
  /\ [](\A s \in ShotIds :
          /\ init(W, s).isShotLightPresent = isShotLightPresent
          /\ deinit(W, s).isShotLightPresent = isShotLightPresent
          /\ updateShotLight(W, s).isShotLightPresent = isShotLightPresent)
  /\ [][isShotLightPresent' # isShotLightPresent =>
          /\ UpdateRuns
          /\ lastOp'.keyPressed
          /\ now - lastShotLightChange > ToggleInterval
          /\ lastShotLightChange' = now]_vars

\* deinit() has run with the flag on for a shot that held a light while
\* another shot still holds its own: the flag is still on.
C24_Witness ==
  /\ lastOp.op = "deinit"
  /\ isShotLightPresent
  /\ shots[lastOp.shot].status = "ended"
  /\ ShotLightId(lastOp.shot) \notin DOMAIN managedLights
  /\ \E r \in ShotIds : /\ shots[r].status = "live"
                        /\ shots[r].shotLight # NullShotLight

(***************************************************************************)
(* The shots of a scene followed to their end: the frame loop goes on      *)
(* (the clock advances by a tick step from frame to frame) and calls       *)
(* update() on every registered shot in every frame.  Shots are fired in   *)
(* the first frames only, so that the frames of the scene suffice for a    *)
(* shot fired last to cross the boundary.  An enemy that collides with a   *)
(* shot only removes the shot earlier; the scene has one.                  *)
(***************************************************************************)
\* The frames a shot fired at z = 0 needs at most: the updates that move it
\* beyond the boundary, by the smallest tick step each, and the one that
\* finds it there.
FramesToExpire ==
  LET step == CHOOSE d \in TickSteps : \A e \in TickSteps : d <= e
  IN ((0 - ExpiryBoundary) \div step) + 2

SpawnShotEarly(s) ==
  /\ ticks + FramesToExpire <= MaxFrames
  /\ SpawnShot(s)

NextFrame ==
  /\ ticks < MaxFrames
  /\ pending = {}
  /\ \E d \in TickSteps : now' = now + d
  /\ ticks' = ticks + 1
  /\ pending' = {s \in ShotIds : ShotModelId(s) \in DOMAIN managedModels}
  /\ lastOp' = [op |-> "tick"]
  /\ UNCHANGED <<renderVars, isShotLightPresent, lastShotLightChange, shots,
                 managedModels, managedLights, lastFlip>>

NextShotLive ==
  \/ \E s \in ShotIds : SpawnShotEarly(s)
  \/ \E s \in ShotIds : UpdateShot(s)
  \/ \E s \in ShotIds : DeinitShot(s)
  \/ NextFrame

\* The scene of SpecShotLive: one enemy and the model of another name.
SceneLive ==
  [x \in {PlayerId, 1} |-> IF x = PlayerId THEN PlayerModel ELSE EnemyModel(x)]

InitShotLive ==
  /\ InitRender
  /\ InitShots
  /\ managedModels = SceneLive
  /\ now = 0
  /\ lastOp = NoOp

\* The frame loop does not stop: once the update pass of a frame is over,
\* the next frame begins.
SpecShotLive ==
  /\ InitShotLive
  /\ [][NextShotLive]_vars
  /\ WF_vars(NextFrame)

\* Every update pass is carried out to its end: update() is called on every
\* shot that was registered when the frame began.
UpdatedEveryFrame == []<>(pending = {})

ShotRegistered(s) == ShotModelId(s) \in DOMAIN managedModels

\* C25: if update() is called on every registered shot in every frame, then,
\* the clock advancing from frame to frame, every registered shot is
\* eventually deregistered; an update() that does not expire the shot moves
\* it down the z axis by 100 units per second of the time since its previous
\* update (one tenth per millisecond), a positive amount, and leaves x and y
\* alone, and an update() that starts with z < -50.0 leaves the shot
\* deregistered.
C25_ShotEventuallyDeregistered ==
  /\ UpdatedEveryFrame =>
       \A s \in ShotIds : [](ShotRegistered(s) => <>(~ShotRegistered(s)))
  /\ [][/\ UpdateRuns =>
             LET s == lastOp'.shot
             IN /\ shots'[s].position.z
                     = shots[s].position.z - (now - shots[s].lastTime)
                /\ shots'[s].position.z < shots[s].position.z
                /\ shots'[s].position.x = shots[s].position.x
                /\ shots'[s].position.y = shots[s].position.y
                /\ shots'[s].lastTime = now
        /\ UpdateExpires =>
             ShotModelId(lastOp'.shot) \notin DOMAIN managedModels']_vars

\* A shot that no enemy overlapped has been moved twice, found beyond the
\* boundary by its third update() and deregistered.
C25_Witness ==
  /\ lastOp.op = "update"
  /\ lastOp.overlap = {}
  /\ shots[lastOp.shot].position.z < ExpiryBoundary
  /\ shots[lastOp.shot].lastTime < now
  /\ ~ShotRegistered(lastOp.shot)
  /\ ticks >= FramesToExpire

\* C26: the number of shadow-texture slots the main pass fills for a model is
\* the configured limit of the variant: MAX_CONE_LIGHTS simple slots and
\* MAX_POINT_LIGHTS cube slots when no more lights than that are registered,
\* the slot bounds of the two placeholder loops being those constants.
C26_SlotCountsAreConfiguredLimits ==
  Rendered =>
    \A d \in DrawIndices("main") :
      /\ Len(RegisteredSimple) <= MAX_CONE_LIGHTS =>
           /\ Cardinality(SlotsOf("SIMPLE", d)) = MAX_CONE_LIGHTS
           /\ SimpleSlotBound = MAX_CONE_LIGHTS
      /\ Len(RegisteredCube) <= MAX_POINT_LIGHTS =>
           /\ Cardinality(SlotsOf("CUBE", d)) = MAX_POINT_LIGHTS
           /\ CubeSlotBound = MAX_POINT_LIGHTS

====
